---- MODULE Spec2Model ----
(***************************************************************************)
(* marginfi-mcp-server: the MarginfiClient of src/src/services/index.ts    *)
(* and the decimal arithmetic (bignumber.js) its account data is built     *)
(* with.                                                                   *)
(*                                                                         *)
(* The client keeps no ledger: every operation builds its answer with      *)
(* createMockBank / createMockMarginfiAccount.  The state of the model is  *)
(* therefore what a caller can observe: the operation last invoked (call)  *)
(* and what it returned (ret).  Keys made by Keypair.generate() are random *)
(* and are drawn nondeterministically from PublicKeys.                     *)
(*                                                                         *)
(* The health-factor computation of createMockMarginfiAccount is also      *)
(* exercised on its own, over drawn assets and liabilities (SpecHealth).   *)
(*                                                                         *)
(* The Express routes in front of the client are modelled request by       *)
(* request (SpecRoutes): a handler validates its request, takes the client *)
(* from the services module (marginfiClient), awaits one client operation  *)
(* and answers.  Two deposit handlers interleaved at their await are       *)
(* SpecDeposits.                                                           *)
(***************************************************************************)
EXTENDS Integers, Sequences, FiniteSets

VARIABLES call, ret, sample, prior, marginfiClient, requests, process

vars == <<call, ret, sample, prior, marginfiClient, requests, process>>

(***************************************************************************)
(* Bounds of the model.                                                    *)
(***************************************************************************)
\* number of distinct public keys (addresses) in the model
NumKeys == 2

\* assets and liabilities handed to the health-factor computation are the
\* integers 0..MaxValue
MaxValue == 12

\* decimal places a quotient is rounded to.  bignumber.js rounds to 20
\* (its default DECIMAL_PLACES); the model scales this down so that the
\* rounding is within reach of TLC's 32-bit integers.
DECIMAL_PLACES == 1

\* Date.now() reads one of the instants 1..MaxTime
MaxTime == 2

\* share counts handed to the share conversion are 0..MaxShares hundredths
MaxShares == 12

(***************************************************************************)
(* Public keys.  Key 0 is '11111111111111111111111111111111'.              *)
(***************************************************************************)
DefaultPublicKey == 0

PublicKeys == 0..(NumKeys - 1)

\* an optional argument (address?) is a set: empty when omitted
Omitted == {}

Given(k) == {k}

(***************************************************************************)
(* bignumber.js values: exact decimals, carried as reduced fractions n/d,  *)
(* plus the three non-finite values.                                       *)
(***************************************************************************)
Abs(i) == IF i < 0 THEN -i ELSE i

Sign(i) == IF i < 0 THEN -1 ELSE IF i > 0 THEN 1 ELSE 0

RECURSIVE GCD(_, _)
GCD(a, b) == IF b = 0 THEN a ELSE GCD(b, a % b)

RECURSIVE Pow10(_)
Pow10(k) == IF k = 0 THEN 1 ELSE 10 * Pow10(k - 1)

NaN == [k |-> "NaN", n |-> 0, d |-> 1]

Infinity == [k |-> "Infinity", n |-> 0, d |-> 1]

NegInfinity == [k |-> "-Infinity", n |-> 0, d |-> 1]

\* new BigNumber(n/d), d > 0
BigNumber(n, d) ==
    IF d = 1 THEN [k |-> "finite", n |-> n, d |-> 1]
    ELSE LET g == GCD(Abs(n), d)
         IN  [k |-> "finite", n |-> n \div g, d |-> d \div g]

isFinite(x) == x.k = "finite"

isZero(x) == isFinite(x) /\ x.n = 0

\* -1, 0, 1 for a finite value; the infinities by their sign
sgn(x) ==
    CASE x.k = "finite" -> Sign(x.n)
      [] x.k = "Infinity" -> 1
      [] x.k = "-Infinity" -> -1
      [] OTHER -> 0

negated(x) ==
    CASE x.k = "finite" -> BigNumber(-x.n, x.d)
      [] x.k = "Infinity" -> NegInfinity
      [] x.k = "-Infinity" -> Infinity
      [] OTHER -> NaN

\* x.plus(y): exact
plus(x, y) ==
    CASE x.k = "NaN" \/ y.k = "NaN" -> NaN
      [] isFinite(x) /\ isFinite(y) -> BigNumber(x.n * y.d + y.n * x.d, x.d * y.d)
      [] isFinite(x) -> y
      [] isFinite(y) -> x
      [] OTHER -> IF x.k = y.k THEN x ELSE NaN

\* x.minus(y): exact
minus(x, y) == plus(x, negated(y))

\* x.times(y): exact
times(x, y) ==
    CASE x.k = "NaN" \/ y.k = "NaN" -> NaN
      [] isFinite(x) /\ isFinite(y) -> BigNumber(x.n * y.n, x.d * y.d)
      [] sgn(x) * sgn(y) = 0 -> NaN
      [] sgn(x) * sgn(y) > 0 -> Infinity
      [] OTHER -> NegInfinity

\* n/d (d > 0) cut off after DECIMAL_PLACES places (ROUND_DOWN)
RoundedDown(n, d) ==
    LET scale == Pow10(DECIMAL_PLACES)
    IN  BigNumber(Sign(n) * ((Abs(n) * scale) \div d), scale)

\* n/d (d > 0) rounded to DECIMAL_PLACES places, ROUND_HALF_UP: to the
\* nearest neighbour, a tie away from zero
Rounded(n, d) ==
    LET scale == Pow10(DECIMAL_PLACES)
        q == (2 * Abs(n) * scale + d) \div (2 * d)
    IN  BigNumber(Sign(n) * q, scale)

\* x.div(y): 0/0 is NaN, a non-zero value over zero is infinite, any other
\* quotient is rounded to DECIMAL_PLACES
div(x, y) ==
    CASE x.k = "NaN" \/ y.k = "NaN" -> NaN
      [] ~isFinite(x) /\ ~isFinite(y) -> NaN
      [] ~isFinite(x) -> IF sgn(x) * sgn(y) >= 0 THEN x ELSE negated(x)
      [] ~isFinite(y) -> BigNumber(0, 1)
      [] isZero(y) -> IF isZero(x) THEN NaN
                      ELSE IF sgn(x) > 0 THEN Infinity ELSE NegInfinity
      [] OTHER -> Rounded(x.n * y.d * Sign(y.n), x.d * Abs(y.n))

\* x.lt(y): false when either is NaN
lt(x, y) ==
    CASE x.k = "NaN" \/ y.k = "NaN" -> FALSE
      [] isFinite(x) /\ isFinite(y) -> x.n * y.d < y.n * x.d
      [] OTHER -> sgn(x) < sgn(y) \/ (sgn(x) = sgn(y) /\ isFinite(x) /\ sgn(y) > 0)
                    \/ (sgn(x) = sgn(y) /\ isFinite(y) /\ sgn(x) < 0)

\* x.lte(y)
lte(x, y) == x.k # "NaN" /\ y.k # "NaN" /\ ~lt(y, x)

(***************************************************************************)
(* Mock data of the client.                                                *)
(***************************************************************************)
\* createMockBank with the borrow side accruing faster than the deposit side
createMockBankSplitRates(symbol, address, genAddress, genMint) ==
    [address |-> IF address = Omitted THEN genAddress
                 ELSE CHOOSE a \in address : TRUE,
     mint |-> genMint,
     tokenSymbol |-> symbol,
     tokenName |-> <<symbol, "Token">>,
     tokenDecimals |-> 6,
     assetShareValue |-> BigNumber(105, 100),
     liabilityShareValue |-> BigNumber(11, 10),
     depositLimit |-> BigNumber(1000000, 1),
     borrowLimit |-> BigNumber(500000, 1),
     depositRate |-> BigNumber(5, 100),
     borrowRate |-> BigNumber(1, 10),
     totalAssets |-> BigNumber(500000, 1),
     totalLiabilities |-> BigNumber(250000, 1),
     price |-> BigNumber(IF symbol = "USDC" THEN 1
                         ELSE IF symbol = "SOL" THEN 20 ELSE 30000, 1),
     isActive |-> TRUE]

\* createMockBank(symbol, address?): genAddress and genMint are the keys
\* Keypair.generate() hands out
createMockBank(symbol, address, genAddress, genMint) ==
    [address |-> IF address = Omitted THEN genAddress
                 ELSE CHOOSE a \in address : TRUE,
     mint |-> genMint,
     tokenSymbol |-> symbol,
     tokenName |-> <<symbol, "Token">>,
     tokenDecimals |-> 6,
     assetShareValue |-> BigNumber(105, 100),
     liabilityShareValue |-> BigNumber(105, 100),
     depositLimit |-> BigNumber(1000000, 1),
     borrowLimit |-> BigNumber(500000, 1),
     depositRate |-> BigNumber(5, 100),
     borrowRate |-> BigNumber(1, 10),
     totalAssets |-> BigNumber(500000, 1),
     totalLiabilities |-> BigNumber(250000, 1),
     price |-> BigNumber(IF symbol = "USDC" THEN 1
                         ELSE IF symbol = "SOL" THEN 20 ELSE 30000, 1),
     isActive |-> TRUE]

\* the addresses createMockBank(symbol) can come back with
GeneratedBankAddresses(symbol) ==
    {createMockBank(symbol, Omitted, k, m).address : k \in PublicKeys, m \in PublicKeys}

\* balances with the SOL debt booked as a negative share count
balancesSignedDebt(usdcBankAddress, solBankAddress) ==
    << [bankAddress |-> usdcBankAddress,
        tokenSymbol |-> "USDC",
        tokenName |-> <<"USDC", "Token">>,
        tokenDecimals |-> 6,
        assetShares |-> BigNumber(1000, 1),
        liabilityShares |-> BigNumber(0, 1),
        assetAmount |-> BigNumber(1050, 1),
        liabilityAmount |-> BigNumber(0, 1),
        price |-> BigNumber(1, 1)],
       [bankAddress |-> solBankAddress,
        tokenSymbol |-> "SOL",
        tokenName |-> <<"SOL", "Token">>,
        tokenDecimals |-> 9,
        assetShares |-> BigNumber(0, 1),
        liabilityShares |-> BigNumber(-10, 1),
        assetAmount |-> BigNumber(0, 1),
        liabilityAmount |-> BigNumber(105, 10),
        price |-> BigNumber(20, 1)] >>

\* const balances: the USDC and the SOL position
balances(usdcBankAddress, solBankAddress) ==
    << [bankAddress |-> usdcBankAddress,
        tokenSymbol |-> "USDC",
        tokenName |-> <<"USDC", "Token">>,
        tokenDecimals |-> 6,
        assetShares |-> BigNumber(1000, 1),
        liabilityShares |-> BigNumber(0, 1),
        assetAmount |-> BigNumber(1050, 1),
        liabilityAmount |-> BigNumber(0, 1),
        price |-> BigNumber(1, 1)],
       [bankAddress |-> solBankAddress,
        tokenSymbol |-> "SOL",
        tokenName |-> <<"SOL", "Token">>,
        tokenDecimals |-> 9,
        assetShares |-> BigNumber(0, 1),
        liabilityShares |-> BigNumber(10, 1),
        assetAmount |-> BigNumber(0, 1),
        liabilityAmount |-> BigNumber(105, 10),
        price |-> BigNumber(20, 1)] >>

\* const assets
assets == BigNumber(1050, 1)

\* liabilities valued from the share count, 10 * 20, not from the amount
liabilitiesOfShares == BigNumber(200, 1)

\* const liabilities
liabilities == BigNumber(210, 1)

\* equity with the liabilities added
equityAdded(a, l) == plus(a, l)

\* const equity = assets.minus(liabilities)
equity(a, l) == minus(a, l)

\* health factor left as a ratio, not scaled to percent
healthFactorRatio(e, l) == div(e, l)

\* health factor with the quotient upside down
healthFactorInverted(e, l) == times(div(l, e), BigNumber(100, 1))

\* const healthFactor = equity.div(liabilities).times(100)
healthFactor(e, l) == times(div(e, l), BigNumber(100, 1))

\* createMockMarginfiAccount(authority, address?): genAddress is the key
\* generated when address is omitted; usdcBank and solBank are made by
\* createMockBank and used for their address alone
createMockMarginfiAccount(authority, address, genAddress, usdcBankAddress, solBankAddress) ==
    [address |-> IF address = Omitted THEN genAddress
                 ELSE CHOOSE a \in address : TRUE,
     authority |-> authority,
     balances |-> balances(usdcBankAddress, solBankAddress),
     healthFactor |-> healthFactor(equity(assets, liabilities), liabilities),
     equity |-> equity(assets, liabilities),
     assets |-> assets,
     liabilities |-> liabilities]

\* getBankBySymbol answering every symbol with the USDC bank
getBankBySymbolOfUSDC(symbol, genAddress, genMint) ==
    createMockBank("USDC", Omitted, genAddress, genMint)

\* getBankBySymbol(symbol)
getBankBySymbol(symbol, genAddress, genMint) ==
    createMockBank(symbol, Omitted, genAddress, genMint)

\* getBankByAddress(address)
getBankByAddress(address, genMint) ==
    createMockBank("USDC", Given(address), address, genMint)

\* the accounts getMarginfiAccountByAddress(address) can hand back
Readable(address) ==
    {createMockMarginfiAccount(DefaultPublicKey, Given(address), address, usdc, sol) :
        usdc \in GeneratedBankAddresses("USDC"), sol \in GeneratedBankAddresses("SOL")}

\* getAllBanks(): three banks, each with generated address and mint
getAllBanks(gen) ==
    << createMockBank("USDC", Omitted, gen[1], gen[2]),
       createMockBank("SOL", Omitted, gen[3], gen[4]),
       createMockBank("BTC", Omitted, gen[5], gen[6]) >>

\* getPrice(mint): the price is 1 for every mint, stamped with Date.now()
getPrice(mint, now) == [price |-> BigNumber(1, 1), timestamp |-> now]

(***************************************************************************)
(* Inputs.                                                                 *)
(***************************************************************************)
\* amounts a caller passes: one that the USDC position of the mock account
\* covers, and one larger than every position of it
Amounts == {BigNumber(100, 1), BigNumber(2000, 1)}

\* token symbols a caller asks for: two the mock prices by name, one it
\* does not know
Symbols == {"USDC", "SOL", "XYZ"}

\* assets and liabilities handed to the health-factor computation
Values == {BigNumber(v, 1) : v \in 0..MaxValue}

(***************************************************************************)
(* What an operation hands back.                                           *)
(***************************************************************************)
NothingYet == [kind |-> "none", accounts |-> <<>>]

OneAccount(account) == [kind |-> "account", accounts |-> <<account>>]

AccountList(list) == [kind |-> "accounts", accounts |-> list]

OneBank(bank) == [kind |-> "bank", accounts |-> <<>>, banks |-> <<bank>>]

BankList(list) == [kind |-> "banks", accounts |-> <<>>, banks |-> list]

OnePrice(price) == [kind |-> "price", accounts |-> <<>>, price |-> price]

\* null: the client found no entity
NoEntity == [kind |-> "null", accounts |-> <<>>]

\* assets, liabilities and what createMockMarginfiAccount computes of them
Health(a, l) ==
    [assets |-> a,
     liabilities |-> l,
     equity |-> equity(a, l),
     healthFactor |-> healthFactor(equity(a, l), l)]

(***************************************************************************)
(* The operations of MarginfiClient.                                       *)
(***************************************************************************)
getMarginfiAccountsForAuthority(authority) ==
    \E gen \in PublicKeys,
       usdc \in GeneratedBankAddresses("USDC"),
       sol \in GeneratedBankAddresses("SOL") :
        /\ call' = [op |-> "getMarginfiAccountsForAuthority", authority |-> authority]
        /\ ret' = AccountList(<<createMockMarginfiAccount(authority, Omitted, gen, usdc, sol)>>)
        /\ UNCHANGED <<sample, prior, marginfiClient, requests, process>>

getMarginfiAccountByAddress(address) ==
    \E usdc \in GeneratedBankAddresses("USDC"),
       sol \in GeneratedBankAddresses("SOL") :
        /\ call' = [op |-> "getMarginfiAccountByAddress", accountAddress |-> address]
        /\ ret' = OneAccount(createMockMarginfiAccount(
                      DefaultPublicKey, Given(address), address, usdc, sol))
        /\ UNCHANGED <<sample, prior, marginfiClient, requests, process>>

createMarginfiAccount(authority) ==
    \E gen \in PublicKeys,
       usdc \in GeneratedBankAddresses("USDC"),
       sol \in GeneratedBankAddresses("SOL") :
        /\ call' = [op |-> "createMarginfiAccount", authority |-> authority]
        /\ ret' = OneAccount(createMockMarginfiAccount(authority, Omitted, gen, usdc, sol))
        /\ UNCHANGED <<sample, prior, marginfiClient, requests, process>>

deposit(accountAddress, bankAddress, amount) ==
    \E usdc \in GeneratedBankAddresses("USDC"),
       sol \in GeneratedBankAddresses("SOL") :
        /\ call' = [op |-> "deposit", accountAddress |-> accountAddress,
                    bankAddress |-> bankAddress, amount |-> amount]
        /\ ret' = OneAccount(createMockMarginfiAccount(
                      DefaultPublicKey, Given(accountAddress), accountAddress, usdc, sol))
        /\ UNCHANGED <<sample, prior, marginfiClient, requests, process>>

withdraw(accountAddress, bankAddress, amount) ==
    \E usdc \in GeneratedBankAddresses("USDC"),
       sol \in GeneratedBankAddresses("SOL") :
        /\ call' = [op |-> "withdraw", accountAddress |-> accountAddress,
                    bankAddress |-> bankAddress, amount |-> amount]
        /\ ret' = OneAccount(createMockMarginfiAccount(
                      DefaultPublicKey, Given(accountAddress), accountAddress, usdc, sol))
        /\ UNCHANGED <<sample, prior, marginfiClient, requests, process>>

borrow(accountAddress, bankAddress, amount) ==
    \E usdc \in GeneratedBankAddresses("USDC"),
       sol \in GeneratedBankAddresses("SOL") :
        /\ call' = [op |-> "borrow", accountAddress |-> accountAddress,
                    bankAddress |-> bankAddress, amount |-> amount]
        /\ ret' = OneAccount(createMockMarginfiAccount(
                      DefaultPublicKey, Given(accountAddress), accountAddress, usdc, sol))
        /\ UNCHANGED <<sample, prior, marginfiClient, requests, process>>

repay(accountAddress, bankAddress, amount) ==
    \E usdc \in GeneratedBankAddresses("USDC"),
       sol \in GeneratedBankAddresses("SOL") :
        /\ call' = [op |-> "repay", accountAddress |-> accountAddress,
                    bankAddress |-> bankAddress, amount |-> amount]
        /\ ret' = OneAccount(createMockMarginfiAccount(
                      DefaultPublicKey, Given(accountAddress), accountAddress, usdc, sol))
        /\ UNCHANGED <<sample, prior, marginfiClient, requests, process>>

\* liquidate booking the two legs of the liquidator and leaving the
\* liquidatee as it was
liquidateLiquidatorLegsOnly(liquidatorAccountAddress, liquidateeAccountAddress, assetBankAddress, liabilityBankAddress, amount) ==
    \E usdc \in GeneratedBankAddresses("USDC"),
       sol \in GeneratedBankAddresses("SOL") :
        LET account == createMockMarginfiAccount(
                           DefaultPublicKey, Given(liquidatorAccountAddress),
                           liquidatorAccountAddress, usdc, sol)
        IN  /\ call' = [op |-> "liquidate",
                        accountAddress |-> liquidatorAccountAddress,
                        liquidateeAccountAddress |-> liquidateeAccountAddress,
                        assetBankAddress |-> assetBankAddress,
                        liabilityBankAddress |-> liabilityBankAddress,
                        amount |-> amount]
            /\ ret' = OneAccount(
                   [account EXCEPT
                       !.balances[1].assetShares = plus(@, amount),
                       !.balances[2].liabilityShares = minus(@, BigNumber(1, 1))])
            /\ UNCHANGED <<sample, prior, marginfiClient, requests, process>>

\* liquidate adding the repaid amount to the liquidator's debt
liquidateTakingOnDebt(liquidatorAccountAddress, liquidateeAccountAddress, assetBankAddress, liabilityBankAddress, amount) ==
    \E usdc \in GeneratedBankAddresses("USDC"),
       sol \in GeneratedBankAddresses("SOL") :
        LET account == createMockMarginfiAccount(
                           DefaultPublicKey, Given(liquidatorAccountAddress),
                           liquidatorAccountAddress, usdc, sol)
        IN  /\ call' = [op |-> "liquidate",
                        accountAddress |-> liquidatorAccountAddress,
                        liquidateeAccountAddress |-> liquidateeAccountAddress,
                        assetBankAddress |-> assetBankAddress,
                        liabilityBankAddress |-> liabilityBankAddress,
                        amount |-> amount]
            /\ ret' = OneAccount(
                   [account EXCEPT
                       !.balances[2].liabilityAmount = plus(@, amount)])
            /\ UNCHANGED <<sample, prior, marginfiClient, requests, process>>

\* liquidate handing back the account of the liquidatee
liquidateReturningLiquidatee(liquidatorAccountAddress, liquidateeAccountAddress, assetBankAddress, liabilityBankAddress, amount) ==
    \E usdc \in GeneratedBankAddresses("USDC"),
       sol \in GeneratedBankAddresses("SOL") :
        /\ call' = [op |-> "liquidate",
                    accountAddress |-> liquidatorAccountAddress,
                    liquidateeAccountAddress |-> liquidateeAccountAddress,
                    assetBankAddress |-> assetBankAddress,
                    liabilityBankAddress |-> liabilityBankAddress,
                    amount |-> amount]
        /\ ret' = OneAccount(createMockMarginfiAccount(
                      DefaultPublicKey, Given(liquidateeAccountAddress),
                      liquidateeAccountAddress, usdc, sol))
        /\ UNCHANGED <<sample, prior, marginfiClient, requests, process>>

liquidate(liquidatorAccountAddress, liquidateeAccountAddress, assetBankAddress, liabilityBankAddress, amount) ==
    \E usdc \in GeneratedBankAddresses("USDC"),
       sol \in GeneratedBankAddresses("SOL") :
        /\ call' = [op |-> "liquidate",
                    accountAddress |-> liquidatorAccountAddress,
                    liquidateeAccountAddress |-> liquidateeAccountAddress,
                    assetBankAddress |-> assetBankAddress,
                    liabilityBankAddress |-> liabilityBankAddress,
                    amount |-> amount]
        /\ ret' = OneAccount(createMockMarginfiAccount(
                      DefaultPublicKey, Given(liquidatorAccountAddress),
                      liquidatorAccountAddress, usdc, sol))
        /\ UNCHANGED <<sample, prior, marginfiClient, requests, process>>

\* the call of getBankByAddress(address)
GetBankByAddress(address) ==
    \E mint \in PublicKeys :
        /\ call' = [op |-> "getBankByAddress", bankAddress |-> address]
        /\ ret' = OneBank(getBankByAddress(address, mint))
        /\ UNCHANGED <<sample, prior, marginfiClient, requests, process>>

\* the call of getBankBySymbol(symbol)
GetBankBySymbol(symbol) ==
    \E gen \in PublicKeys, mint \in PublicKeys :
        /\ call' = [op |-> "getBankBySymbol", symbol |-> symbol]
        /\ ret' = OneBank(getBankBySymbol(symbol, gen, mint))
        /\ UNCHANGED <<sample, prior, marginfiClient, requests, process>>

\* the call of getAllBanks()
GetAllBanks ==
    \E gen \in [1..6 -> PublicKeys] :
        /\ call' = [op |-> "getAllBanks"]
        /\ ret' = BankList(getAllBanks(gen))
        /\ UNCHANGED <<sample, prior, marginfiClient, requests, process>>

\* the call of getPrice(mint)
GetPriceByMint(mint) ==
    \E now \in 1..MaxTime :
        /\ call' = [op |-> "getPrice", mint |-> mint]
        /\ ret' = OnePrice(getPrice(mint, now))
        /\ UNCHANGED <<sample, prior, marginfiClient, requests, process>>

\* the health-factor computation applied to drawn assets and liabilities
Evaluate(a, l) ==
    /\ prior' = sample
    /\ sample' = Health(a, l)
    /\ UNCHANGED <<call, ret, marginfiClient, requests, process>>

(***************************************************************************)
(* What a request carries.  A field of the path or of the JSON body is     *)
(* absent, a string or a number.                                           *)
(***************************************************************************)
\* an address field: absent, a string that is no base58 key, or the base58
\* text of a key
AbsentAddress == [kind |-> "absent", key |-> DefaultPublicKey]

MalformedAddress == [kind |-> "malformed", key |-> DefaultPublicKey]

Base58(k) == [kind |-> "base58", key |-> k]

\* a segment of the path is never absent: Express matches no route then
PathAddresses == {MalformedAddress} \cup {Base58(k) : k \in PublicKeys}

BodyAddresses == {AbsentAddress} \cup PathAddresses

\* an amount field: absent, a JSON number or a JSON string
AbsentAmount == [kind |-> "absent", num |-> 0, text |-> ""]

NumberAmount(n) == [kind |-> "number", num |-> n, text |-> ""]

StringAmount(t) == [kind |-> "string", num |-> 0, text |-> t]

\* positive amounts in the two encodings
PositiveAmounts == {NumberAmount(100), StringAmount("2000")}

RawAmounts ==
    PositiveAmounts \cup
    {AbsentAmount, NumberAmount(0), NumberAmount(-5),
     StringAmount(""), StringAmount("0"), StringAmount("-5"), StringAmount("abc")}

\* !field
isFalsy(raw) ==
    \/ raw.kind = "absent"
    \/ raw.kind = "number" /\ raw.num = 0
    \/ raw.kind = "string" /\ raw.text = ""

\* new PublicKey(field) returns; it throws otherwise
isPublicKey(raw) == raw.kind = "base58"

\* new BigNumber(text) for the strings of the model: a decimal numeral is
\* its value, any other text is NaN
BigNumberOfText(t) ==
    CASE t = "0" -> BigNumber(0, 1)
      [] t = "2000" -> BigNumber(2000, 1)
      [] t = "-5" -> BigNumber(-5, 1)
      [] OTHER -> NaN

\* new BigNumber(amount)
BigNumberOf(raw) ==
    IF raw.kind = "number" THEN BigNumber(raw.num, 1)
    ELSE IF raw.kind = "string" THEN BigNumberOfText(raw.text)
    ELSE NaN

(***************************************************************************)
(* The routes.  A request is its route and the fields the handler reads.   *)
(***************************************************************************)
GetBanks == "GET /banks"

GetBank == "GET /banks/:address"

GetBankOfSymbol == "GET /banks/symbol/:symbol"

GetAccounts == "GET /accounts/:authority"

GetAccount == "GET /accounts/address/:address"

PostAccount == "POST /accounts"

PostDeposit == "POST /accounts/:address/deposit"

PostWithdraw == "POST /accounts/:address/withdraw"

PostBorrow == "POST /accounts/:address/borrow"

PostRepay == "POST /accounts/:address/repay"

PostLiquidate == "POST /accounts/:address/liquidate"

GetPrice == "GET /prices/:mint"

GetHealth == "GET /health"

\* the four routes that move one balance of one account
BalanceRoutes == {PostDeposit, PostWithdraw, PostBorrow, PostRepay}

\* the fields a handler tests with !field, in the order it tests them
RequiredFields(route) ==
    CASE route = GetBank -> <<"address">>
      [] route = GetBankOfSymbol -> <<"symbol">>
      [] route = GetAccounts -> <<"authority">>
      [] route = GetAccount -> <<"address">>
      [] route = PostAccount -> <<"authority">>
      [] route \in BalanceRoutes -> <<"address", "bankAddress", "amount">>
      [] route = PostLiquidate ->
             <<"address", "liquidateeAddress", "assetBankAddress",
               "liabilityBankAddress", "amount">>
      [] route = GetPrice -> <<"mint">>
      [] OTHER -> <<>>

\* the fields a handler hands to new PublicKey, in the order it does
AddressFields(route) ==
    CASE route = GetBank -> <<"address">>
      [] route = GetAccounts -> <<"authority">>
      [] route = GetAccount -> <<"address">>
      [] route = PostAccount -> <<"authority">>
      [] route \in BalanceRoutes -> <<"address", "bankAddress">>
      [] route = PostLiquidate ->
             <<"address", "liquidateeAddress", "assetBankAddress",
               "liabilityBankAddress">>
      [] route = GetPrice -> <<"mint">>
      [] OTHER -> <<>>

\* the requests of the balance routes
BalanceRequests(routes, accounts, banks, amounts) ==
    {[route |-> r, address |-> a, bankAddress |-> b, amount |-> m] :
        r \in routes, a \in accounts, b \in banks, m \in amounts}

\* every request the model sends
Requests ==
    {[route |-> GetBanks], [route |-> GetHealth]}
    \cup {[route |-> GetBank, address |-> a] : a \in PathAddresses}
    \cup {[route |-> GetBankOfSymbol, symbol |-> [kind |-> "string", text |-> t]] :
             t \in Symbols}
    \cup {[route |-> GetAccounts, authority |-> a] : a \in PathAddresses}
    \cup {[route |-> GetAccount, address |-> a] : a \in PathAddresses}
    \cup {[route |-> PostAccount, authority |-> a] : a \in BodyAddresses}
    \cup BalanceRequests(BalanceRoutes, PathAddresses, BodyAddresses, RawAmounts)
    \cup {[route |-> PostLiquidate, address |-> a, liquidateeAddress |-> e,
           assetBankAddress |-> x, liabilityBankAddress |-> y, amount |-> m] :
             a \in PathAddresses, e \in BodyAddresses, x \in BodyAddresses,
             y \in BodyAddresses, m \in RawAmounts}
    \cup {[route |-> GetPrice, mint |-> a] : a \in PathAddresses}

\* deposits that pass validation
DepositRequests ==
    BalanceRequests({PostDeposit}, {Base58(k) : k \in PublicKeys},
                    {Base58(k) : k \in PublicKeys}, PositiveAmounts)

(***************************************************************************)
(* The handlers.                                                           *)
(***************************************************************************)
\* the two handlers that can be in flight at once
Handlers == {"A", "B"}

\* no request in the handler
Idle == [pc |-> "idle"]

NoResponse == [status |-> 0]

RECURSIVE FirstFailing(_, _, _, _)
\* the first of fields[i..] whose value in the request fails Passes; 0 if none
FirstFailing(Passes(_), request, fields, i) ==
    IF i > Len(fields) THEN 0
    ELSE IF ~Passes(request[fields[i]]) THEN i
    ELSE FirstFailing(Passes, request, fields, i + 1)

isTruthy(raw) == ~isFalsy(raw)

\* validation that looks at the first field and at none after it
ValidationOfFirstField(request) ==
    LET required == IF RequiredFields(request.route) = <<>> THEN <<>>
                    ELSE <<RequiredFields(request.route)[1]>>
        parsed == IF AddressFields(request.route) = <<>> THEN <<>>
                  ELSE <<AddressFields(request.route)[1]>>
        missing == FirstFailing(isTruthy, request, required, 1)
        malformed == FirstFailing(isPublicKey, request, parsed, 1)
    IN  IF missing # 0
        THEN [status |-> 400, error |-> <<required[missing], "is required">>]
        ELSE IF malformed # 0
        THEN [status |-> 400, error |-> <<"Invalid", parsed[malformed]>>]
        ELSE NoResponse

\* the checks in front of getMarginfiClient(): every !field test, then every
\* new PublicKey; the 400 body names the first field that fails
Validation(request) ==
    LET missing == FirstFailing(isTruthy, request, RequiredFields(request.route), 1)
        malformed == FirstFailing(isPublicKey, request, AddressFields(request.route), 1)
    IN  IF missing # 0
        THEN [status |-> 400,
              error |-> <<RequiredFields(request.route)[missing], "is required">>]
        ELSE IF malformed # 0
        THEN [status |-> 400,
              error |-> <<"Invalid", AddressFields(request.route)[malformed]>>]
        ELSE NoResponse

\* the operation of MarginfiClient a handler awaits
ClientOperation(route) ==
    CASE route = GetBanks -> "getAllBanks"
      [] route = GetBank -> "getBankByAddress"
      [] route = GetBankOfSymbol -> "getBankBySymbol"
      [] route = GetAccounts -> "getMarginfiAccountsForAuthority"
      [] route = GetAccount -> "getMarginfiAccountByAddress"
      [] route = PostAccount -> "createMarginfiAccount"
      [] route = PostDeposit -> "deposit"
      [] route = PostWithdraw -> "withdraw"
      [] route = PostBorrow -> "borrow"
      [] route = PostRepay -> "repay"
      [] route = PostLiquidate -> "liquidate"
      [] route = GetPrice -> "getPrice"

\* the accounts createMockMarginfiAccount(authority) can make
Created(authority) ==
    {createMockMarginfiAccount(authority, Omitted, gen, usdc, sol) :
        gen \in PublicKeys,
        usdc \in GeneratedBankAddresses("USDC"), sol \in GeneratedBankAddresses("SOL")}

\* a deposit that adds the amount to the shares of a snapshot of the account
depositOnSnapshot(accountAddress, bankAddress, amount) ==
    {OneAccount([account EXCEPT !.balances[1].assetShares = plus(@, amount)]) :
        account \in Readable(accountAddress)}

\* what deposit(accountAddress, bankAddress, amount) can resolve to
depositResults(accountAddress, bankAddress, amount) ==
    {OneAccount(account) : account \in Readable(accountAddress)}

\* what the awaited operation can resolve to, for a request that passed
\* validation
ClientResults(request) ==
    CASE request.route = GetBanks ->
             {BankList(getAllBanks(gen)) : gen \in [1..6 -> PublicKeys]}
      [] request.route = GetBank ->
             {OneBank(getBankByAddress(request.address.key, mint)) : mint \in PublicKeys}
      [] request.route = GetBankOfSymbol ->
             {OneBank(getBankBySymbol(request.symbol.text, gen, mint)) :
                 gen \in PublicKeys, mint \in PublicKeys}
      [] request.route = GetAccounts ->
             {AccountList(<<account>>) : account \in Created(request.authority.key)}
      [] request.route = GetAccount ->
             {OneAccount(account) : account \in Readable(request.address.key)}
      [] request.route = PostAccount ->
             {OneAccount(account) : account \in Created(request.authority.key)}
      [] request.route = PostDeposit ->
             depositResults(request.address.key, request.bankAddress.key,
                            BigNumberOf(request.amount))
      [] request.route \in {PostWithdraw, PostBorrow, PostRepay, PostLiquidate} ->
             {OneAccount(account) : account \in Readable(request.address.key)}
      [] request.route = GetPrice ->
             {OnePrice(getPrice(request.mint.key, now)) : now \in 1..MaxTime}

\* the routes that answer 404 when the awaited operation resolves to null
NotFoundRoutes == {GetBank, GetBankOfSymbol, GetAccount, GetPrice}

\* the found/not-found test the wrong way round
statusOfInverted(route, result) ==
    IF route \in NotFoundRoutes /\ result.kind # "null" THEN 404
    ELSE IF route = PostAccount THEN 201
    ELSE 200

\* the status a handler answers with once the awaited operation resolved
statusOf(route, result) ==
    IF route \in NotFoundRoutes /\ result.kind = "null" THEN 404
    ELSE IF route = PostAccount THEN 201
    ELSE 200

\* a handler that has answered, once
Responded(request, calls, result, response) ==
    [pc |-> "responded", request |-> request, calls |-> calls,
     result |-> result, response |-> response, sent |-> 1]

\* initializeServices(): MarginfiClient.connect resolves and the module
\* variable is set
initializeServices ==
    /\ process = "starting"
    /\ marginfiClient' = "client"
    /\ process' = "serving"
    /\ UNCHANGED <<call, ret, sample, prior, requests>>

\* initializeServices(): new Connection throws on an endpoint that is no
\* http(s) URL, the catch block throws it on, and nobody awaits or catches
\* the promise: an unhandled rejection, on which the runtime either goes on
\* (it warns) or ends the process, by its --unhandled-rejections mode
initializeServicesRejects ==
    /\ process = "starting"
    /\ process' \in {"serving", "exited"}
    /\ UNCHANGED <<call, ret, sample, prior, marginfiClient, requests>>

\* a handler whose 400 answers lack their return: it answers 400 and goes
\* on to take the client and to await the operation
ReceiveWithoutReturn(h, request) ==
    /\ process = "serving"
    /\ requests[h].pc = "idle"
    /\ LET invalid == Validation(request)
           answered == IF invalid # NoResponse THEN 1 ELSE 0
       IN  IF request.route = GetHealth
           THEN requests' = [requests EXCEPT
                    ![h] = Responded(request, <<>>, NoEntity,
                                     [status |-> 200, data |-> NoEntity])]
           ELSE IF marginfiClient = "null"
           THEN requests' = [requests EXCEPT
                    ![h] = [Responded(request, <<>>, NoEntity,
                                      [status |-> 500, error |-> <<"Failed">>])
                            EXCEPT !.sent = answered + 1]]
           ELSE \E result \in ClientResults(request) :
                    requests' = [requests EXCEPT
                        ![h] = [pc |-> "awaiting", request |-> request,
                                calls |-> <<ClientOperation(request.route)>>,
                                result |-> result, response |-> invalid,
                                sent |-> answered]]
    /\ UNCHANGED <<call, ret, sample, prior, marginfiClient, process>>

\* a handler runs from the request to its first await or to an early answer
Receive(h, request) ==
    /\ process = "serving"
    /\ requests[h].pc = "idle"
    /\ LET invalid == Validation(request)
       IN  IF invalid # NoResponse
           THEN requests' = [requests EXCEPT
                    ![h] = Responded(request, <<>>, NoEntity, invalid)]
           ELSE IF request.route = GetHealth
           THEN requests' = [requests EXCEPT
                    ![h] = Responded(request, <<>>, NoEntity,
                                     [status |-> 200, data |-> NoEntity])]
           ELSE IF marginfiClient = "null"
           THEN requests' = [requests EXCEPT
                    ![h] = Responded(request, <<>>, NoEntity,
                                     [status |-> 500, error |-> <<"Failed">>])]
           ELSE \E result \in ClientResults(request) :
                    requests' = [requests EXCEPT
                        ![h] = [pc |-> "awaiting", request |-> request,
                                calls |-> <<ClientOperation(request.route)>>,
                                result |-> result, response |-> NoResponse,
                                sent |-> 0]]
    /\ UNCHANGED <<call, ret, sample, prior, marginfiClient, process>>

\* the answer a handler sends once the awaited operation resolved
Answer(route, result) ==
    IF statusOf(route, result) = 404
    THEN [status |-> 404, error |-> <<"not found">>]
    ELSE [status |-> statusOf(route, result), data |-> result]

\* a handler that invokes the operation a second time before it answers
ResumeWithRetry(h) ==
    /\ process = "serving"
    /\ requests[h].pc = "awaiting"
    /\ \E again \in ClientResults(requests[h].request) :
           requests' = [requests EXCEPT
               ![h] = [Responded(requests[h].request,
                                 Append(requests[h].calls, requests[h].calls[1]),
                                 again,
                                 Answer(requests[h].request.route, again))
                       EXCEPT !.sent = requests[h].sent + 1]]
    /\ UNCHANGED <<call, ret, sample, prior, marginfiClient, process>>

\* the handler continues after its await and answers
Resume(h) ==
    /\ process = "serving"
    /\ requests[h].pc = "awaiting"
    /\ requests' = [requests EXCEPT
           ![h] = [Responded(requests[h].request, requests[h].calls,
                             requests[h].result,
                             Answer(requests[h].request.route, requests[h].result))
                   EXCEPT !.sent = requests[h].sent + 1]]
    /\ UNCHANGED <<call, ret, sample, prior, marginfiClient, process>>

\* the answered request is over and the handler is free for the next
Close(h) ==
    /\ process = "serving"
    /\ requests[h].pc = "responded"
    /\ requests' = [requests EXCEPT ![h] = Idle]
    /\ UNCHANGED <<call, ret, sample, prior, marginfiClient, process>>

(***************************************************************************)
(* The share conversion, in the decimal arithmetic of the client.          *)
(***************************************************************************)
\* sharesToAmount(shares, shareValue) = shares * shareValue
sharesToAmount(shares, shareValue) == times(shares, shareValue)

\* amountToShares(amount, shareValue) = amount / shareValue
amountToShares(amount, shareValue) == div(amount, shareValue)

\* share counts with two decimal places
ShareCounts == {BigNumber(n, 100) : n \in 0..MaxShares}

\* share values: the 1.05 of createMockBank, one below 1, one above
ShareValues == {BigNumber(105, 100), BigNumber(1, 2), BigNumber(3, 1)}

\* a share count taken to an amount and back
Conversion(shares, shareValue) ==
    [shares |-> shares,
     shareValue |-> shareValue,
     amount |-> sharesToAmount(shares, shareValue),
     back |-> amountToShares(sharesToAmount(shares, shareValue), shareValue)]

\* the conversion applied to a drawn share count and share value
Convert(shares, shareValue) ==
    /\ prior' = sample
    /\ sample' = Conversion(shares, shareValue)
    /\ UNCHANGED <<call, ret, marginfiClient, requests, process>>

(***************************************************************************)
(* Specifications.                                                         *)
(***************************************************************************)
Init ==
    /\ call = [op |-> "none"]
    /\ ret = NothingYet
    /\ sample = Health(assets, liabilities)
    /\ prior = sample
    /\ marginfiClient = "null"
    /\ requests = [h \in Handlers |-> Idle]
    /\ process = "starting"

Next ==
    \/ \E authority \in PublicKeys : getMarginfiAccountsForAuthority(authority)
    \/ \E address \in PublicKeys : getMarginfiAccountByAddress(address)
    \/ \E authority \in PublicKeys : createMarginfiAccount(authority)
    \/ \E account \in PublicKeys, bank \in PublicKeys, amount \in Amounts :
           deposit(account, bank, amount)
    \/ \E account \in PublicKeys, bank \in PublicKeys, amount \in Amounts :
           withdraw(account, bank, amount)
    \/ \E account \in PublicKeys, bank \in PublicKeys, amount \in Amounts :
           borrow(account, bank, amount)
    \/ \E account \in PublicKeys, bank \in PublicKeys, amount \in Amounts :
           repay(account, bank, amount)
    \/ \E liquidator \in PublicKeys, liquidatee \in PublicKeys,
          assetBank \in PublicKeys, liabilityBank \in PublicKeys, amount \in Amounts :
           liquidate(liquidator, liquidatee, assetBank, liabilityBank, amount)
    \/ \E address \in PublicKeys : GetBankByAddress(address)
    \/ \E symbol \in Symbols : GetBankBySymbol(symbol)

Spec == Init /\ [][Next]_vars

\* the health-factor computation on its own
InitHealth ==
    /\ call = [op |-> "none"]
    /\ ret = NothingYet
    /\ sample \in {Health(a, l) : a \in Values, l \in Values}
    /\ prior = sample
    /\ marginfiClient = "null"
    /\ requests = [h \in Handlers |-> Idle]
    /\ process = "starting"

NextHealth == \E a \in Values, l \in Values : Evaluate(a, l)

SpecHealth == InitHealth /\ [][NextHealth]_vars

\* the routes, one request at a time
NextRoutes ==
    \/ initializeServices
    \/ initializeServicesRejects
    \/ \E request \in Requests : Receive("A", request)
    \/ Resume("A")
    \/ Close("A")

SpecRoutes == Init /\ [][NextRoutes]_vars

\* two handlers of the deposit route, interleaved at their await
NextDeposits ==
    \/ initializeServices
    \/ initializeServicesRejects
    \/ \E h \in Handlers, request \in DepositRequests : Receive(h, request)
    \/ \E h \in Handlers : Resume(h)
    \/ \E h \in Handlers : Close(h)

SpecDeposits == Init /\ [][NextDeposits]_vars

\* the share conversion on its own
InitShares ==
    /\ call = [op |-> "none"]
    /\ ret = NothingYet
    /\ sample \in {Conversion(s, v) : s \in ShareCounts, v \in ShareValues}
    /\ prior = sample
    /\ marginfiClient = "null"
    /\ requests = [h \in Handlers |-> Idle]
    /\ process = "starting"

NextShares == \E s \in ShareCounts, v \in ShareValues : Convert(s, v)

SpecShares == InitShares /\ [][NextShares]_vars

\* the read operations of the client
NextReads ==
    \/ GetAllBanks
    \/ \E address \in PublicKeys : GetBankByAddress(address)
    \/ \E symbol \in Symbols : GetBankBySymbol(symbol)
    \/ \E mint \in PublicKeys : GetPriceByMint(mint)
    \/ \E address \in PublicKeys : getMarginfiAccountByAddress(address)
    \/ \E authority \in PublicKeys : getMarginfiAccountsForAuthority(authority)

SpecReads == Init /\ [][NextReads]_vars

(***************************************************************************)
(* Properties of the returned accounts.                                    *)
(***************************************************************************)
\* the accounts the last operation returned
ReturnedAccounts == {ret.accounts[i] : i \in DOMAIN ret.accounts}

RECURSIVE SumTo(_, _, _)
\* sum of Term(bals[i]) over i in 1..n
SumTo(Term(_), bals, n) ==
    IF n = 0 THEN BigNumber(0, 1) ELSE plus(SumTo(Term, bals, n - 1), Term(bals[n]))

AssetValue(b) == times(b.assetAmount, b.price)

LiabilityValue(b) == times(b.liabilityAmount, b.price)

\* C1: every account an operation returns has equity equal to its assets
\* minus its liabilities, exactly (the difference taken as a fraction, not
\* with the client's own subtraction).
EquityIsAssetsMinusLiabilities ==
    \A a \in ReturnedAccounts :
        /\ isFinite(a.equity) /\ isFinite(a.assets) /\ isFinite(a.liabilities)
        /\ a.equity = BigNumber(a.assets.n * a.liabilities.d - a.liabilities.n * a.assets.d,
                                a.assets.d * a.liabilities.d)

\* C1 witness: a liquidation has returned an account whose equity is 840
EquityWitness ==
    /\ call.op = "liquidate"
    /\ ret.kind = "account"
    /\ ret.accounts[1].equity = BigNumber(840, 1)

\* C2: every returned account's assets are the sum of assetAmount * price
\* over its balances, and its liabilities the sum of liabilityAmount * price.
TotalsAreSumsOverBalances ==
    \A a \in ReturnedAccounts :
        /\ a.assets = SumTo(AssetValue, a.balances, Len(a.balances))
        /\ a.liabilities = SumTo(LiabilityValue, a.balances, Len(a.balances))

\* C2 witness: a created account with two balances and liabilities of 210
TotalsWitness ==
    /\ call.op = "createMarginfiAccount"
    /\ ret.kind = "account"
    /\ Len(ret.accounts[1].balances) = 2
    /\ ret.accounts[1].liabilities = BigNumber(210, 1)

\* C3: every balance of every returned account has assetAmount equal to
\* assetShares times the assetShareValue, and liabilityAmount equal to
\* liabilityShares times the liabilityShareValue, of the bank the client
\* returns for the balance's token (by symbol) and for its bank address.
AmountsAreSharesTimesShareValue ==
    \A a \in ReturnedAccounts :
        \A i \in DOMAIN a.balances :
            \A k \in PublicKeys, m \in PublicKeys :
                LET b == a.balances[i]
                    bySymbol == getBankBySymbol(b.tokenSymbol, k, m)
                    byAddress == getBankByAddress(b.bankAddress, m)
                IN  /\ b.assetAmount = times(b.assetShares, bySymbol.assetShareValue)
                    /\ b.liabilityAmount = times(b.liabilityShares, bySymbol.liabilityShareValue)
                    /\ b.assetAmount = times(b.assetShares, byAddress.assetShareValue)
                    /\ b.liabilityAmount = times(b.liabilityShares, byAddress.liabilityShareValue)

\* C3 witness: a read account whose SOL balance owes 10 shares, 10.5 SOL
SharesWitness ==
    /\ call.op = "getMarginfiAccountByAddress"
    /\ ret.kind = "account"
    /\ \E i \in DOMAIN ret.accounts[1].balances :
           /\ ret.accounts[1].balances[i].tokenSymbol = "SOL"
           /\ ret.accounts[1].balances[i].liabilityShares = BigNumber(10, 1)
           /\ ret.accounts[1].balances[i].liabilityAmount = BigNumber(105, 10)

\* C4: every returned account's healthFactor is (assets - liabilities) /
\* liabilities * 100 of that account's own assets and liabilities (compared
\* as fractions), and the reference data (1000 USDC asset shares worth 1050
\* at price 1, 10 SOL liability shares at price 20) gives assets 1050,
\* liabilities 210, equity 840 and healthFactor 400.
HealthFactorOfReferenceData ==
    \A a \in ReturnedAccounts :
        /\ isFinite(a.healthFactor) /\ isFinite(a.assets) /\ isFinite(a.liabilities)
        /\ a.liabilities.n > 0
        /\ a.healthFactor.n * (a.assets.d * a.liabilities.n)
             = a.healthFactor.d * 100
                 * (a.assets.n * a.liabilities.d - a.liabilities.n * a.assets.d)
        /\ a.balances[1].assetShares = BigNumber(1000, 1)
        /\ a.balances[1].price = BigNumber(1, 1)
        /\ a.balances[2].liabilityShares = BigNumber(10, 1)
        /\ a.balances[2].price = BigNumber(20, 1)
        /\ a.assets = BigNumber(1050, 1)
        /\ a.liabilities = BigNumber(210, 1)
        /\ a.equity = BigNumber(840, 1)
        /\ a.healthFactor = BigNumber(400, 1)

\* C4 witness: the accounts of an authority have been listed, the one
\* listed has health factor 400
HealthFactorWitness ==
    /\ call.op = "getMarginfiAccountsForAuthority"
    /\ ret.kind = "accounts"
    /\ Len(ret.accounts) = 1
    /\ ret.accounts[1].healthFactor = BigNumber(400, 1)

\* C7: in every account returned after any sequence of operations, with any
\* amounts, every balance has assetShares >= 0 and liabilityShares >= 0.
SharesNeverNegative ==
    \A a \in ReturnedAccounts :
        \A i \in DOMAIN a.balances :
            /\ lte(BigNumber(0, 1), a.balances[i].assetShares)
            /\ lte(BigNumber(0, 1), a.balances[i].liabilityShares)

\* C7 witness: a withdrawal of more than the account holds has returned
SharesWitnessAfterWithdraw ==
    /\ call.op = "withdraw"
    /\ \A i \in DOMAIN ret.accounts[1].balances :
           lt(ret.accounts[1].balances[i].assetAmount, call.amount)
    /\ ret.kind = "account"
    /\ lte(BigNumber(0, 1), ret.accounts[1].balances[1].assetShares)

(***************************************************************************)
(* Properties of the health-factor computation (SpecHealth).               *)
(***************************************************************************)
\* one unit of the last decimal place a quotient keeps
QuotientUnit == BigNumber(1, Pow10(DECIMAL_PLACES))

MutatingOps == {"deposit", "withdraw", "borrow", "repay"}

\* the positions of an account on a bank
PositionsOn(account, bankAddress) ==
    {i \in DOMAIN account.balances : account.balances[i].bankAddress = bankAddress}

RECURSIVE SumOnBank(_, _, _, _)
\* sum of Term(balance) over the first n balances that are on the bank
SumOnBank(Term(_), account, bankAddress, n) ==
    IF n = 0 THEN BigNumber(0, 1)
    ELSE plus(SumOnBank(Term, account, bankAddress, n - 1),
              IF n \in PositionsOn(account, bankAddress)
              THEN Term(account.balances[n]) ELSE BigNumber(0, 1))

AssetSharesOf(b) == b.assetShares

LiabilitySharesOf(b) == b.liabilityShares

AssetAmountOf(b) == b.assetAmount

LiabilityAmountOf(b) == b.liabilityAmount

\* what an account holds on a bank; zero when it has no position there
HeldOn(Term(_), account, bankAddress) ==
    SumOnBank(Term, account, bankAddress, Len(account.balances))

\* the step is operation op on account X, the state before it showing X
StepOn(op, before) ==
    /\ call'.op = op
    /\ before \in ReturnedAccounts
    /\ before.address = call'.accountAddress

\* the operation of the step failed with the named error
FailedWith(error) == ret'.kind = "error" /\ ret'.error = error

\* C8: a successful deposit, repay, withdraw or borrow of a positive amount
\* on account X and bank B moves X's balance on B, relative to the balance X
\* showed before the call: deposit raises assetShares, repay lowers
\* liabilityShares, withdraw lowers assetShares, borrow raises
\* liabilityShares, and the returned account shows it.
OperationsMoveShares ==
    [][\A before \in ReturnedAccounts :
          (/\ call'.op \in MutatingOps
           /\ before.address = call'.accountAddress
           /\ lt(BigNumber(0, 1), call'.amount)
           /\ ret'.kind = "account")
          => LET after == ret'.accounts[1]
                 bank == call'.bankAddress
             IN  /\ after.address = call'.accountAddress
                 /\ call'.op = "deposit"
                      => lt(HeldOn(AssetSharesOf, before, bank),
                            HeldOn(AssetSharesOf, after, bank))
                 /\ call'.op = "repay"
                      => lt(HeldOn(LiabilitySharesOf, after, bank),
                            HeldOn(LiabilitySharesOf, before, bank))
                 /\ call'.op = "withdraw"
                      => lt(HeldOn(AssetSharesOf, after, bank),
                            HeldOn(AssetSharesOf, before, bank))
                 /\ call'.op = "borrow"
                      => lt(HeldOn(LiabilitySharesOf, before, bank),
                            HeldOn(LiabilitySharesOf, after, bank))]_vars

\* C9: a withdraw of more than the account's asset amount on the bank, or a
\* repay of more than its liability amount on the bank, fails with
\* InsufficientBalance and never returns an account.
OverdrawIsRejected ==
    [][\A before \in ReturnedAccounts :
          /\ (/\ StepOn("withdraw", before)
              /\ lt(HeldOn(AssetAmountOf, before, call'.bankAddress), call'.amount))
                 => FailedWith("InsufficientBalance")
          /\ (/\ StepOn("repay", before)
              /\ lt(HeldOn(LiabilityAmountOf, before, call'.bankAddress), call'.amount))
                 => FailedWith("InsufficientBalance")]_vars

\* thresholds the Initial health factor may be held to
InitialThresholds == {BigNumber(0, 1), BigNumber(100, 1)}

\* the health factor the account would have with amount more borrowed from
\* the bank, the amount valued at the price of the bank the client returns
\* for that address
HealthAfterBorrow(account, bankAddress, amount) ==
    LET bank == getBankByAddress(bankAddress, DefaultPublicKey)
        owed == plus(account.liabilities, times(amount, bank.price))
    IN  healthFactor(equity(account.assets, owed), owed)

\* C10: a borrow that would bring the account's Initial health factor below
\* the Initial threshold is rejected with MarginRequirementViolation, and no
\* account comes back changed.
UnhealthyBorrowIsRejected ==
    [][\A before \in ReturnedAccounts, threshold \in InitialThresholds :
          (/\ StepOn("borrow", before)
           /\ lt(HealthAfterBorrow(before, call'.bankAddress, call'.amount), threshold))
          => FailedWith("MarginRequirementViolation")]_vars

(***************************************************************************)
(* Liquidation.                                                            *)
(***************************************************************************)
\* thresholds the Maintenance health factor may be held to
MaintenanceThresholds == {BigNumber(0, 1), BigNumber(100, 1)}

\* the step is a liquidation, the state before it showing the liquidatee
LiquidationOf(before) ==
    /\ call'.op = "liquidate"
    /\ before \in ReturnedAccounts
    /\ before.address = call'.liquidateeAccountAddress

\* C11: a liquidation succeeds only if the liquidatee's Maintenance health
\* factor is at or below the threshold and the liquidatee holds a positive
\* asset amount on the asset bank and a positive liability amount on the
\* liability bank; with the health factor above the threshold it fails with
\* NotLiquidatable.
LiquidationNeedsUnhealthyLiquidatee ==
    [][\A before \in ReturnedAccounts, threshold \in MaintenanceThresholds :
          LiquidationOf(before)
          => /\ ret'.kind = "account"
                  => /\ lte(before.healthFactor, threshold)
                     /\ lt(BigNumber(0, 1),
                           HeldOn(AssetAmountOf, before, call'.assetBankAddress))
                     /\ lt(BigNumber(0, 1),
                           HeldOn(LiabilityAmountOf, before, call'.liabilityBankAddress))
             /\ lt(threshold, before.healthFactor)
                  => FailedWith("NotLiquidatable")]_vars

\* C12: a liquidation whose repay amount is not positive, or exceeds the
\* liability amount the liquidatee owes on the liability bank, fails with
\* InvalidAmount and returns no account.
InvalidLiquidationAmountIsRejected ==
    [][\A before \in ReturnedAccounts :
          (/\ LiquidationOf(before)
           /\ \/ lte(call'.amount, BigNumber(0, 1))
              \/ lt(HeldOn(LiabilityAmountOf, before, call'.liabilityBankAddress),
                    call'.amount))
          => FailedWith("InvalidAmount")]_vars

\* the positions of an account in a token; every returned balance carries a
\* freshly generated bank address, so a position is followed by its token
PositionsIn(account, symbol) ==
    {i \in DOMAIN account.balances : account.balances[i].tokenSymbol = symbol}

\* the account shows another share count in some token than it showed before
Moved(Term(_), before, after) ==
    \E i \in DOMAIN before.balances :
        \A j \in PositionsIn(after, before.balances[i].tokenSymbol) :
            Term(after.balances[j]) # Term(before.balances[i])

\* the deltas of a liquidation found applied to the liquidator: between the
\* account shown before the call and the account the call returns
LiquidatorDeltas(before, after) ==
    {leg \in {"liquidator liability", "liquidator asset"} :
        \/ leg = "liquidator liability" /\ Moved(LiabilitySharesOf, before, after)
        \/ leg = "liquidator asset" /\ Moved(AssetSharesOf, before, after)}

\* the deltas of a liquidation found applied to the liquidatee at an address:
\* between a read of it before the call and a read after it. No operation
\* writes anything a read reads, so the reads before and the reads after are
\* the same set of accounts
LiquidateeDeltas ==
    [address \in PublicKeys |->
        {leg \in {"liquidatee liability", "liquidatee asset"} :
            \E before \in Readable(address), after \in Readable(address) :
                \/ leg = "liquidatee liability" /\ Moved(LiabilitySharesOf, before, after)
                \/ leg = "liquidatee asset" /\ Moved(AssetSharesOf, before, after)}]

LiquidationKeepsLiabilitiesInBounds ==
    [][
        /\ \A before \in ReturnedAccounts :
             (StepOn("liquidate", before) /\ ret'.kind = "account")
             => \A i \in DOMAIN before.balances :
                    \A j \in PositionsIn(ret'.accounts[1], before.balances[i].tokenSymbol) :
                        lte(ret'.accounts[1].balances[j].liabilityAmount,
                            before.balances[i].liabilityAmount)
        /\ (/\ call.op = "liquidate"
            /\ call'.op = "getMarginfiAccountByAddress"
            /\ call'.accountAddress = call.liquidateeAccountAddress)
           => \A k \in DOMAIN ret'.accounts[1].balances :
                  lte(BigNumber(0, 1), ret'.accounts[1].balances[k].liabilityAmount)
      ]_vars

\* a liquidation has returned the liquidator's account with a debt that is
\* positive, the SOL debt of 10.5
LiabilitiesWitness ==
    /\ call.op = "liquidate"
    /\ ret.kind = "account"
    /\ \E i \in DOMAIN ret.accounts[1].balances :
           /\ ret.accounts[1].balances[i].tokenSymbol = "SOL"
           /\ ret.accounts[1].balances[i].liabilityAmount = BigNumber(105, 10)

(***************************************************************************)
(* Keys of the returned entities.                                          *)
(***************************************************************************)
\* C19: every keyed read returns an entity that carries the key asked for:
\* getBankByAddress(a) a bank with address a, getBankBySymbol(s) a bank with
\* tokenSymbol s, getMarginfiAccountByAddress(a) an account with address a,
\* getMarginfiAccountsForAuthority(u) a non-empty list of accounts that all
\* have authority u.
ReadsCarryTheKey ==
    /\ call.op = "getBankByAddress"
         => /\ Len(ret.banks) = 1
            /\ ret.banks[1].address = call.bankAddress
    /\ call.op = "getBankBySymbol"
         => /\ Len(ret.banks) = 1
            /\ ret.banks[1].tokenSymbol = call.symbol
    /\ call.op = "getMarginfiAccountByAddress"
         => /\ Len(ret.accounts) = 1
            /\ ret.accounts[1].address = call.accountAddress
    /\ call.op = "getMarginfiAccountsForAuthority"
         => /\ Len(ret.accounts) >= 1
            /\ \A account \in ReturnedAccounts : account.authority = call.authority

\* a bank was asked for by a symbol other than USDC and came back
ReadsWitness ==
    /\ call.op = "getBankBySymbol"
    /\ call.symbol = "SOL"
    /\ ret.kind = "bank"
    /\ ret.banks[1].tokenSymbol = "SOL"

\* C20: deposit, withdraw, borrow and repay on account X return the account
\* with address X; liquidate returns the account with the liquidator's
\* address, which is not the liquidatee's when the two differ.
OperationsReturnTheirAccount ==
    /\ call.op \in MutatingOps
         => /\ ret.kind = "account"
            /\ ret.accounts[1].address = call.accountAddress
    /\ call.op = "liquidate"
         => /\ ret.kind = "account"
            /\ ret.accounts[1].address = call.accountAddress
            /\ call.accountAddress # call.liquidateeAccountAddress
                 => ret.accounts[1].address # call.liquidateeAccountAddress

\* one account has liquidated another and got its own account back
ReturnedAccountWitness ==
    /\ call.op = "liquidate"
    /\ call.accountAddress # call.liquidateeAccountAddress
    /\ ret.kind = "account"
    /\ ret.accounts[1].address = call.accountAddress
    /\ call.amount = BigNumber(2000, 1)

(***************************************************************************)
(* The routes.                                                             *)
(***************************************************************************)
\* the handlers that hold a request, answered or not
InFlight == {h \in Handlers : requests[h].pc # "idle"}

\* the handlers that have answered their request
Answered == {h \in Handlers : requests[h].pc = "responded"}

\* the handler answered 200 with what the client returned
Succeeded(h) ==
    /\ requests[h].pc = "responded"
    /\ requests[h].response.status = 200
    /\ requests[h].calls # <<>>

BadRequestsAreRejected ==
    \A h \in InFlight :
        (\E field \in DOMAIN requests[h].request \ {"route"} :
             requests[h].request[field].kind \in {"absent", "malformed"})
        => /\ requests[h].pc = "responded"
           /\ requests[h].response.status = 400
           /\ requests[h].calls = <<>>

\* a liquidation whose last address, the liability bank, is malformed, all
\* the rest being in order, was answered 400
BadRequestWitness ==
    /\ marginfiClient = "client"
    /\ requests["A"].pc = "responded"
    /\ requests["A"].request.route = PostLiquidate
    /\ requests["A"].request.address.kind = "base58"
    /\ requests["A"].request.liquidateeAddress.kind = "base58"
    /\ requests["A"].request.assetBankAddress.kind = "base58"
    /\ requests["A"].request.liabilityBankAddress.kind = "malformed"
    /\ requests["A"].request.amount = NumberAmount(100)
    /\ requests["A"].response.status = 400
    /\ requests["A"].calls = <<>>

\* C17: a deposit, withdraw, borrow, repay or liquidate request whose amount
\* is zero, negative or not a number, as a JSON number or as a string, has
\* no client operation invoked for it and is answered 400 (500 only when
\* there is no client to ask).
NonPositiveAmountsAreRejected ==
    \A h \in InFlight :
        (/\ requests[h].request.route \in BalanceRoutes \cup {PostLiquidate}
         /\ requests[h].request.amount.kind \in {"number", "string"}
         /\ ~lt(BigNumber(0, 1), BigNumberOf(requests[h].request.amount)))
        => /\ requests[h].calls = <<>>
           /\ requests[h].pc = "responded"
           /\ requests[h].response.status \in {400, 500}

\* the routes that look one entity up by its key
LookupRoutes == {GetBank, GetBankOfSymbol, GetAccount, GetPrice}

CreatedAccountsPersist ==
    [][\A created \in ReturnedAccounts :
          call.op = "createMarginfiAccount"
          => /\ (/\ call'.op = "getMarginfiAccountByAddress"
                 /\ call'.accountAddress = created.address)
                => \A account \in ReturnedAccounts' :
                       account.authority = created.authority
             /\ (/\ call'.op = "getMarginfiAccountsForAuthority"
                 /\ call'.authority = created.authority)
                => \E account \in ReturnedAccounts' :
                       account.address = created.address]_vars

HasKeptPlaces(x) == isFinite(x) /\ (x.n * Pow10(DECIMAL_PLACES)) % x.d = 0

BanksOfSymbol(list, symbol) ==
    {list[i] : i \in {j \in DOMAIN list : list[j].tokenSymbol = symbol}}

\* C23: a getAllBanks that follows a getAllBanks, and a getBankBySymbol that
\* follows a getBankBySymbol of the same symbol, return the same banks, with
\* the same addresses and mints; and a getBankBySymbol(s) that follows a
\* getAllBanks returns the bank with symbol s that getAllBanks listed.
ReadsArePure ==
    [][/\ (call.op = "getAllBanks" /\ call'.op = "getAllBanks")
            => ret'.banks = ret.banks
       /\ (/\ call.op = "getBankBySymbol"
           /\ call'.op = "getBankBySymbol"
           /\ call'.symbol = call.symbol)
            => ret'.banks = ret.banks
       /\ (call.op = "getAllBanks" /\ call'.op = "getBankBySymbol")
            => \A listed \in BanksOfSymbol(ret.banks, call'.symbol) :
                   ret'.banks[1] = listed]_vars

(***************************************************************************)
(* Requests and the client.                                                *)
(***************************************************************************)
\* the request passes the handler's checks and its route takes the client
ReachesForClient(request) ==
    /\ request.route # GetHealth
    /\ Validation(request) = NoResponse

\* C24: a request invokes at most one operation of the client, the one of
\* its route, and invokes it at most once, whatever the answer is: nothing
\* is invoked again, on a 500 as on any other answer.
AtMostOneClientCall ==
    \A h \in InFlight :
        /\ Len(requests[h].calls) <= 1
        /\ requests[h].calls # <<>>
            => requests[h].calls = <<ClientOperation(requests[h].request.route)>>

\* a deposit was answered 200 after one call of deposit
OneCallWitness ==
    /\ requests["A"].pc = "responded"
    /\ requests["A"].request.route = PostDeposit
    /\ requests["A"].response.status = 200
    /\ requests["A"].calls = <<"deposit">>

\* C25: the process never ends once it was started, with or without a
\* client; a request in order that finds no client is answered 500 and
\* invokes nothing; a request in order that finds the client invokes its
\* operation; and the client, once set, is never unset.
ServesWithoutClient ==
    [][/\ process' # "exited"
       /\ \A h \in Handlers :
              (/\ requests[h].pc = "idle"
               /\ requests'[h].pc # "idle"
               /\ ReachesForClient(requests'[h].request))
              => IF marginfiClient = "null"
                 THEN /\ requests'[h].pc = "responded"
                      /\ requests'[h].response.status = 500
                      /\ requests'[h].calls = <<>>
                 ELSE requests'[h].calls # <<>>
       /\ marginfiClient = "client" => marginfiClient' = "client"]_vars

\* C26: a request that was answered was answered once, and no request is
\* answered more than once, on any path: a missing field, a malformed
\* address, an entity not found, a success, a client that cannot be taken.
ExactlyOneResponse ==
    \A h \in InFlight :
        /\ requests[h].sent <= 1
        /\ requests[h].pc = "responded" <=> requests[h].sent = 1

\* a price request whose mint is malformed was answered 400, once
OneResponseWitness ==
    /\ requests["A"].pc = "responded"
    /\ requests["A"].request.route = GetPrice
    /\ requests["A"].response.status = 400
    /\ requests["A"].sent = 1

====
